---- MODULE Spec2Model ----
(***************************************************************************)
(* A model of qme's filesystem database (qme/main/database/filesystem.py): *)
(* FileSystemDatabase and FileSystemTask acting on a directory tree        *)
(*   <root>/<executor name>/<task id>.json                                 *)
(* Strings that the code takes apart (task ids, file names) are sequences  *)
(* of characters, so that str.split and str.replace are computed.          *)
(***************************************************************************)
EXTENDS Integers, Sequences, FiniteSets, TLC

VARIABLES
    dirs,   \* the executor directories that exist under data_base
    files,  \* path -> [text, mtime], the *.json files that exist
    task,   \* the FileSystemTask handle the running process holds, or NoTask
    last,   \* the last call: [op, arg, out, new]
    config_dir, \* whether the configuration directory exists
    data_base,  \* whether the directory <config_dir>/database exists
    procs       \* of each process running a call step by step: where it is

vars == <<dirs, files, task, last, config_dir, data_base, procs>>

\* ---------------------------------------------------------------- strings

Hyphen == "-"
Ext == ".json"

NameA == <<"a">>
NameB == <<"b">>
NameAB == <<"a", Hyphen, "b">>

\* <name>-<uuid> task ids: one with several hyphens, one plain, one whose
\* executor name itself holds a hyphen.
IdA == <<"a", Hyphen, "1", Hyphen, "2">>
IdB == <<"b", Hyphen, "1">>
IdAB == <<"a", Hyphen, "b", Hyphen, "1">>
\* A second task id of executor a.
IdA3 == <<"a", Hyphen, "3">>
\* A task id without any hyphen (never the id of a stored task).
IdPlain == <<"b">>

\* The values executor.export() returns; opaque to the storage layer.
Payloads == {<<"x">>, <<"y">>}

\* The (name, taskid) pairs of the executors that callers pass in.
ExecutorIds == {<<NameA, IdA>>, <<NameB, IdB>>, <<NameAB, IdAB>>}

\* An executor object: name, taskid and what export() returns at the call.
Executors ==
    {[name |-> i[1], taskid |-> i[2], export |-> p] : i \in ExecutorIds, p \in Payloads}

Names == {i[1] : i \in ExecutorIds}

\* The task ids get_task and delete_task are called with.
TaskIds == {i[2] : i \in ExecutorIds} \cup {IdPlain}

\* taskid=None
NoTaskId == <<>>

NoTask == [none |-> TRUE]
NoDocument == [none |-> TRUE]

\* The updates mappings callers pass to update: None, {}, {"data": X}, {"note": X}.
NoUpdates == [none |-> TRUE]
EmptyDict == <<>>
UpdateSet ==
    {NoUpdates, EmptyDict} \cup {[data |-> p] : p \in Payloads} \cup {[note |-> <<"x">>]}

\* The updates mappings callers pass to update_task: None, {"data": X, "note": X}.
TaskUpdateSet == {NoUpdates, [data |-> <<"y">>, note |-> <<"x">>]}

\* ---------------------------------------------------------------- helpers

\* Python truthiness of a mapping or None.
Truthy(d) == d # NoDocument /\ DOMAIN d # {}

\* A dict.update that keeps the updates alone and drops the rest of d.
DictUpdateReplaces(d, u) == u

\* dict.update: the keys of u replace or extend those of d.
DictUpdate(d, u) ==
    [k \in DOMAIN d \cup DOMAIN u |-> IF k \in DOMAIN u THEN u[k] ELSE d[k]]

\* The keys of a document in the order a dict keeps them (insertion order).
KeyOrder == <<"executor", "uid", "data", "note">>

\* write_json: the document as text, a sequence of <<key, value>> members.
WriteJson(d) ==
    LET keys == SelectSeq(KeyOrder, LAMBDA k : k \in DOMAIN d)
    IN  [i \in 1..Len(keys) |-> <<keys[i], d[keys[i]]>>]

\* read_json: the text parsed back into a mapping.
ReadJson(text) ==
    [k \in {text[i][1] : i \in 1..Len(text)} |->
        (CHOOSE m \in {text[i] : i \in 1..Len(text)} : m[1] = k)[2]]

\* A split at the last hyphen: taskid.rsplit("-", 1)[0]
SplitLast(s) ==
    IF \E i \in 1..Len(s) : s[i] = Hyphen
    THEN LET lst == CHOOSE i \in 1..Len(s) :
                        s[i] = Hyphen /\ \A j \in (i + 1)..Len(s) : s[j] # Hyphen
         IN  SubSeq(s, 1, lst - 1)
    ELSE s

\* taskid.split("-", 1)[0]
SplitFirst(s) ==
    IF \E i \in 1..Len(s) : s[i] = Hyphen
    THEN LET first == CHOOSE i \in 1..Len(s) :
                          s[i] = Hyphen /\ \A j \in 1..(i - 1) : s[j] # Hyphen
         IN  SubSeq(s, 1, first - 1)
    ELSE s

\* os.path.basename(path).replace(".json", "")
StripExt(path) == SelectSeq(path[2], LAMBDA c : c # Ext)

\* ---------------------------------------------------------------- FileSystemTask

\* FileSystemTask.executor_dir
ExecutorDir(e) == e.name

\* A filename under the directory that the task id's first part names.
FilenameBySplit(e) == <<SplitFirst(e.taskid), Append(e.taskid, Ext)>>

\* FileSystemTask.filename: "%s.json" % os.path.join(executor_dir, taskid)
Filename(e) == <<ExecutorDir(e), Append(e.taskid, Ext)>>

\* The state of the directory tree, as the operators below pass it around.
FS == [dirs |-> dirs, files |-> files]

\* os.path.exists(filename)
FileExists(fs, path) == path \in DOMAIN fs.files

\* FileSystemTask.save: the whole file is replaced and stamped with the time.
Save(fs, e, data, now) ==
    [fs EXCEPT !.files =
        [p \in DOMAIN fs.files \cup {Filename(e)} |->
            IF p = Filename(e) THEN [text |-> WriteJson(data), mtime |-> now]
            ELSE fs.files[p]]]

\* FileSystemTask.load
Load(fs, e) ==
    IF FileExists(fs, Filename(e)) THEN ReadJson(fs.files[Filename(e)].text)
    ELSE NoDocument

\* An initial document that stores the task id where the export belongs.
InitialDocumentUidAsData(e) ==
    [executor |-> e.name, uid |-> e.taskid, data |-> e.taskid]

\* The document FileSystemTask.create writes first.
InitialDocument(e) == [executor |-> e.name, uid |-> e.taskid, data |-> e.export]

\* A create that writes the first document only when the file is not there.
CreateKeepsExisting(fs, e, should_exist, now) ==
    IF should_exist /\ ~FileExists(fs, Filename(e))
    THEN [fatal |-> TRUE, fs |-> fs]
    ELSE LET fs1 == IF ExecutorDir(e) \notin fs.dirs
                    THEN [fs EXCEPT !.dirs = @ \cup {ExecutorDir(e)}]
                    ELSE fs
             fs2 == IF ~should_exist /\ ~FileExists(fs, Filename(e))
                    THEN Save(fs1, e, InitialDocument(e), now)
                    ELSE fs1
         IN  [fatal |-> FALSE, fs |-> fs2]

\* A create that never checks that the file it is told to exist does.
CreateUnchecked(fs, e, should_exist, now) ==
    LET fs1 == IF ExecutorDir(e) \notin fs.dirs
               THEN [fs EXCEPT !.dirs = @ \cup {ExecutorDir(e)}]
               ELSE fs
        fs2 == IF ~should_exist THEN Save(fs1, e, InitialDocument(e), now)
               ELSE fs1
    IN  [fatal |-> FALSE, fs |-> fs2]

\* FileSystemTask.create, called by the constructor: [fatal, fs]. The time
\* `now` matters only when the file is written, that is with exists=False.
Create(fs, e, should_exist, now) ==
    IF should_exist /\ ~FileExists(fs, Filename(e))
    THEN [fatal |-> TRUE, fs |-> fs]
    ELSE LET fs1 == IF ExecutorDir(e) \notin fs.dirs
                    THEN [fs EXCEPT !.dirs = @ \cup {ExecutorDir(e)}]
                    ELSE fs
             fs2 == IF ~should_exist THEN Save(fs1, e, InitialDocument(e), now)
                    ELSE fs1
         IN  [fatal |-> FALSE, fs |-> fs2]

\* An update that tests `if updates:` alone and takes a missing file for {}.
UpdateOfMissing(fs, e, updates, now) ==
    LET u == IF updates = NoUpdates \/ DOMAIN updates = {} THEN EmptyDict ELSE updates
        data == Load(fs, e)
    IN  IF Truthy(u)
        THEN Save(fs, e, DictUpdate(IF Truthy(data) THEN data ELSE EmptyDict, u), now)
        ELSE fs

\* FileSystemTask.update
Update(fs, e, updates, now) ==
    LET u == IF updates = NoUpdates \/ DOMAIN updates = {} THEN EmptyDict ELSE updates
        data == Load(fs, e)
    IN  IF Truthy(data) /\ Truthy(u) THEN Save(fs, e, DictUpdate(data, u), now)
        ELSE fs

\* ---------------------------------------------------------------- time

\* Modification times are only ever compared with one another, so a file's
\* mtime is kept as its rank among the mtimes present: 0 for the oldest.
Rerank(fl) ==
    [p \in DOMAIN fl |->
        [fl[p] EXCEPT !.mtime =
            Cardinality({fl[q].mtime : q \in {r \in DOMAIN fl : fl[r].mtime < fl[p].mtime}})]]

\* The mtime of the newest file.
Newest(fs) ==
    CHOOSE m \in {fs.files[p].mtime : p \in DOMAIN fs.files} :
        \A q \in DOMAIN fs.files : fs.files[q].mtime <= m

\* The times a call may run at: the clock never runs backwards, so a call is
\* either within the same tick as the newest file or later than every file.
Now(fs) == IF DOMAIN fs.files = {} THEN {0} ELSE {Newest(fs), Newest(fs) + 1}

\* ---------------------------------------------------------------- FileSystemDatabase

\* The handle a FileSystemTask is: the executor's name and task id.
Handle(e) == [name |-> e.name, taskid |-> e.taskid]

\* get_named_executor(name, taskid): the executor of that name for the task.
GetNamedExecutor(name, taskid) == [name |-> name, taskid |-> taskid]

\* get_latest_modified(data_base, pattern="*.json"): the files no other file
\* is newer than; which of several equally new ones is returned is not fixed.
GetLatestModified(fs) ==
    {p \in DOMAIN fs.files :
        \A q \in DOMAIN fs.files : fs.files[q].mtime <= fs.files[p].mtime}

\* A resolution that keeps the file's extension in the task id.
ResolveTaskIdWithExt(fs, taskid) ==
    IF taskid = NoTaskId THEN {p[2] : p \in GetLatestModified(fs)}
    ELSE {taskid}

\* get_task, first half: the task ids the call may go on with.
ResolveTaskId(fs, taskid) ==
    IF taskid = NoTaskId THEN {StripExt(p) : p \in GetLatestModified(fs)}
    ELSE {taskid}

\* A get_task that constructs the task as add_task does, with exists=False.
GetTaskByIdCreates(fs, tid, now) ==
    LET e == [name |-> SplitFirst(tid), taskid |-> tid, export |-> <<>>]
        r == Create(fs, e, FALSE, now)
    IN  [fatal |-> r.fatal, fs |-> r.fs, task |-> Handle(e)]

\* A get_task that takes the whole task id for the executor's name.
GetTaskByIdNoSplit(fs, tid, now) ==
    LET e == GetNamedExecutor(tid, tid)
        r == Create(fs, e, TRUE, now)
    IN  [fatal |-> r.fatal, fs |-> r.fs, task |-> Handle(e)]

\* get_task, second half: the executor, then FileSystemTask(exists=True),
\* which writes nothing: its callers pass any time for `now`.
GetTaskById(fs, tid, now) ==
    LET e == GetNamedExecutor(SplitFirst(tid), tid)
        r == Create(fs, e, TRUE, now)
    IN  [fatal |-> r.fatal, fs |-> r.fs, task |-> Handle(e)]

\* An rmtree that empties the directory and leaves it in place.
RmtreeKeepsDir(fs, d) ==
    [dirs |-> fs.dirs,
     files |-> [p \in {q \in DOMAIN fs.files : q[1] # d} |-> fs.files[p]]]

\* shutil.rmtree(executor_dir)
Rmtree(fs, d) ==
    [dirs |-> fs.dirs \ {d},
     files |-> [p \in {q \in DOMAIN fs.files : q[1] # d} |-> fs.files[p]]]

\* A removal that takes the file's directory along.
RemoveWithDir(fs, path) == Rmtree(fs, path[1])

\* os.remove(path)
Remove(fs, path) ==
    [fs EXCEPT !.files = [p \in DOMAIN fs.files \ {path} |-> fs.files[p]]]

\* An update_task that passes the caller's updates on when it has any.
UpdateTaskFromCaller(e, updates) ==
    IF updates = NoUpdates THEN [data |-> e.export] ELSE updates

\* What update_task hands to FileSystemTask.update: the executor's export,
\* whatever the caller's updates are.
UpdateTaskUpdates(e, updates) == [data |-> e.export]

\* iter_executors: the subdirectories of data_base.
IterExecutors(fs) == fs.dirs

\* A clear that returns after the first directory.
ClearFirstOnly(fs, todo) ==
    IF todo = {} THEN fs ELSE Rmtree(fs, CHOOSE x \in todo : TRUE)

\* The loop of clear over the directories iter_executors yields.
RECURSIVE ClearLoop(_, _)
ClearLoop(fs, todo) ==
    IF todo = {} THEN fs
    ELSE LET d == CHOOSE x \in todo : TRUE
         IN  ClearLoop(IF d \in fs.dirs THEN Rmtree(fs, d) ELSE fs, todo \ {d})

\* ---------------------------------------------------------------- state

\* The processes that run calls on one database at the same time.
Procs == {"p", "q"}

\* A process that runs no call: [pc, op, e, updates, data, todo, cur, out].
Idle ==
    [pc |-> "idle", op |-> "none", e |-> NoTask, updates |-> NoUpdates,
     data |-> NoDocument, todo |-> {}, cur |-> NoTaskId, out |-> "none"]

\* Before any FileSystemDatabase is constructed: the configuration directory
\* exists or not, and nothing lies under it.
InitFresh ==
    /\ config_dir \in BOOLEAN
    /\ data_base = FALSE
    /\ dirs = {}
    /\ files = <<>>
    /\ task = NoTask
    /\ last = [op |-> "init", arg |-> NoTaskId, out |-> "ok", new |-> {}]
    /\ procs = [p \in Procs |-> Idle]

\* After FileSystemDatabase(config_dir) on an existing configuration directory.
Init ==
    /\ config_dir = TRUE
    /\ data_base = TRUE
    /\ dirs = {}
    /\ files = <<>>
    /\ task = NoTask
    /\ last = [op |-> "init", arg |-> NoTaskId, out |-> "ok", new |-> {}]
    /\ procs = [p \in Procs |-> Idle]

\* A create_database that calls os.mkdir without asking whether data_base
\* exists: [out, data_base].
EnsureDatabaseMkdir(exists) ==
    IF exists THEN [out |-> "FileExistsError", data_base |-> TRUE]
    ELSE [out |-> "ok", data_base |-> TRUE]

\* create_database, once config_dir is known to exist: data_base is made
\* when it is not there, [out, data_base].
EnsureDatabase(exists) == [out |-> "ok", data_base |-> TRUE]

\* FileSystemDatabase.__init__(config_dir), that is create_database
CreateDatabase ==
    /\ UNCHANGED <<dirs, files, config_dir, procs>>
    /\ IF ~config_dir
       THEN /\ last' = [op |-> "create_database", arg |-> NoTaskId,
                        out |-> "fatal", new |-> {}]
            /\ task' = NoTask
            /\ UNCHANGED data_base
       ELSE LET r == EnsureDatabase(data_base)
            IN  /\ data_base' = r.data_base
                /\ last' = [op |-> "create_database", arg |-> NoTaskId,
                            out |-> r.out, new |-> {}]
                /\ task' = IF r.out = "ok" THEN task ELSE NoTask

\* A call on a FileSystemDatabase (there is one once data_base was made)
\* returns: the directory tree it leaves and the record of the call, with
\* the files that the call made.
Return(fs, op, arg) ==
    /\ data_base
    /\ dirs' = fs.dirs
    /\ files' = Rerank(fs.files)
    /\ last' = [op |-> op, arg |-> arg, out |-> "ok",
                new |-> DOMAIN fs.files \ DOMAIN files]
    /\ UNCHANGED <<config_dir, data_base, procs>>

\* A fatal exit (bot.exit, sys.exit) or an uncaught exception: the process
\* ends, its handle is gone and the directory tree stays as it is.
Exit(op, arg, how) ==
    /\ data_base
    /\ last' = [op |-> op, arg |-> arg, out |-> how, new |-> {}]
    /\ task' = NoTask
    /\ UNCHANGED <<dirs, files, config_dir, data_base, procs>>

\* FileSystemDatabase.add_task(executor)
AddTask(e) ==
    \E now \in Now(FS) :
        /\ Return(Create(FS, e, FALSE, now).fs, "add_task", e)
        /\ task' = Handle(e)

\* FileSystemDatabase.update_task(executor, updates)
UpdateTask(e, updates) ==
    LET r == Create(FS, e, TRUE, 0)
        arg == [executor |-> e, updates |-> updates]
    IN  IF r.fatal THEN Exit("update_task", arg, "fatal")
        ELSE /\ \E now \in Now(FS) :
                    Return(Update(r.fs, e, UpdateTaskUpdates(e, updates), now),
                           "update_task", arg)
             /\ UNCHANGED task

\* FileSystemDatabase.get_task(taskid)
GetTask(taskid) ==
    \/ /\ ResolveTaskId(FS, taskid) = {}
       /\ Exit("get_task", taskid, "fatal")
    \/ \E tid \in ResolveTaskId(FS, taskid) :
          LET r == GetTaskById(FS, tid, 0)
          IN  IF r.fatal THEN Exit("get_task", taskid, "fatal")
              ELSE /\ Return(r.fs, "get_task", taskid)
                   /\ task' = r.task

\* FileSystemDatabase.delete_task(taskid)
DeleteTask(taskid) ==
    LET r == GetTaskById(FS, taskid, 0)
    IN  IF r.fatal THEN Exit("delete_task", taskid, "fatal")
        ELSE /\ Return(Remove(r.fs, Filename(r.task)), "delete_task", taskid)
             /\ UNCHANGED task

\* FileSystemDatabase.delete_executor(name); the message of the missing
\* directory reads the undefined name `executor`, so the call raises NameError.
DeleteExecutor(name) ==
    IF name \notin dirs THEN Exit("delete_executor", name, "NameError")
    ELSE /\ Return(Rmtree(FS, name), "delete_executor", name)
         /\ UNCHANGED task

\* FileSystemDatabase.clear()
Clear ==
    /\ Return(ClearLoop(FS, IterExecutors(FS)), "clear", NoTaskId)
    /\ UNCHANGED task

\* FileSystemTask.update(updates) on the handle the process holds
TaskUpdate(updates) ==
    /\ task # NoTask
    /\ \E now \in Now(FS) : Return(Update(FS, task, updates, now), "update", updates)
    /\ UNCHANGED task

\* recursive_find(listpath, pattern="*.json"), basenames without extension:
\* the rows list_tasks shows.
ListRows(fs, name) ==
    {StripExt(p) : p \in {q \in DOMAIN fs.files : name = NoTaskId \/ q[1] = name}}

\* FileSystemDatabase.list_tasks(name)
ListTasks(name) ==
    /\ Return(FS, "list_tasks", [name |-> name, rows |-> ListRows(FS, name)])
    /\ UNCHANGED task

\* FileSystemDatabase.iter_executors(), run to its end
ListExecutors ==
    /\ Return(FS, "iter_executors", IterExecutors(FS))
    /\ UNCHANGED task

\* FileSystemTask.load() on the handle the process holds
TaskLoad ==
    /\ task # NoTask
    /\ Return(FS, "load", Load(FS, task))
    /\ UNCHANGED task

Next ==
    \/ CreateDatabase
    \/ \E n \in {NoTaskId, NameA} : ListTasks(n)
    \/ ListExecutors
    \/ TaskLoad
    \/ \E e \in Executors : AddTask(e)
    \/ \E e \in Executors, u \in TaskUpdateSet : UpdateTask(e, u)
    \/ \E t \in TaskIds \cup {NoTaskId} : GetTask(t)
    \/ \E t \in TaskIds : DeleteTask(t)
    \/ \E n \in Names : DeleteExecutor(n)
    \/ Clear
    \/ \E u \in UpdateSet : TaskUpdate(u)

Spec == Init /\ [][Next]_vars

\* The same calls, from before the first FileSystemDatabase is constructed.
SpecFresh == InitFresh /\ [][Next]_vars

\* ---------------------------------------------------------------- processes

\* The executors that processes add tasks of and hold handles of at the same
\* time: two tasks of executor a, one of executor b.
ProcExecutors ==
    {[name |-> NameA, taskid |-> IdA, export |-> <<"x">>],
     [name |-> NameA, taskid |-> IdA3, export |-> <<"y">>],
     [name |-> NameB, taskid |-> IdB, export |-> <<"x">>]}

\* The updates that processes call FileSystemTask.update with.
ProcUpdates == {[note |-> <<"x">>], [data |-> <<"y">>]}

\* The database after add_task of a-1-2 and then of b-1.
Populated ==
    LET e1 == [name |-> NameA, taskid |-> IdA, export |-> <<"x">>]
        e2 == [name |-> NameB, taskid |-> IdB, export |-> <<"x">>]
        fs1 == Create([dirs |-> {}, files |-> <<>>], e1, FALSE, 0).fs
        fs2 == Create(fs1, e2, FALSE, Newest(fs1) + 1).fs
    IN  [dirs |-> fs2.dirs, files |-> Rerank(fs2.files)]

\* Two processes are about to call into one database, which is empty or
\* holds two tasks.
InitProcs ==
    /\ config_dir = TRUE
    /\ data_base = TRUE
    /\ task = NoTask
    /\ last = [op |-> "init", arg |-> NoTaskId, out |-> "ok", new |-> {}]
    /\ procs = [p \in Procs |-> Idle]
    /\ \E fs \in {[dirs |-> {}, files |-> <<>>], Populated} :
           dirs = fs.dirs /\ files = fs.files

\* What a step of a process leaves alone besides the directory tree.
ProcFrame == UNCHANGED <<task, last, config_dir, data_base>>

\* The process goes on at pc.
Goto(p, pc) == procs' = [procs EXCEPT ![p].pc = pc]

\* The call of the process returns.
Done(p) == procs' = [procs EXCEPT ![p].pc = "done", ![p].out = "ok"]

\* An exception nobody catches ends the process.
Raise(p, exc) == procs' = [procs EXCEPT ![p].pc = "failed", ![p].out = exc]

\* A merge into the file as it is when the process saves.
MergeBaseReloaded(fs, pr) == Load(fs, pr.e)

\* FileSystemTask.update: the mapping that data.update(updates) changes is
\* the one load() returned to this process.
MergeBase(fs, pr) == pr.data

\* The document a process passes to save: create's initial one, or update's
\* loaded data with the updates merged in.
SavedDocument(fs, pr) ==
    IF pr.op = "add_task" THEN InitialDocument(pr.e)
    ELSE DictUpdate(MergeBase(fs, pr), pr.updates)

\* add_task(e) up to create's test of os.path.exists(self.executor_dir)
ProcAddTask(p, e) ==
    /\ procs[p].pc = "idle"
    /\ procs' = [procs EXCEPT ![p] =
                    [Idle EXCEPT !.op = "add_task", !.e = e,
                                 !.pc = IF ExecutorDir(e) \in dirs THEN "save"
                                        ELSE "mkdir"]]
    /\ UNCHANGED <<dirs, files>>
    /\ ProcFrame

\* create: os.mkdir(self.executor_dir), which raises when the directory is there
ProcMkdir(p) ==
    /\ procs[p].pc = "mkdir"
    /\ IF ExecutorDir(procs[p].e) \in dirs
       THEN Raise(p, "FileExistsError") /\ UNCHANGED dirs
       ELSE dirs' = dirs \cup {ExecutorDir(procs[p].e)} /\ Goto(p, "save")
    /\ UNCHANGED files
    /\ ProcFrame

\* save: write_json(data, self.filename), which needs the directory
ProcSave(p) ==
    /\ procs[p].pc = "save"
    /\ IF ExecutorDir(procs[p].e) \notin dirs
       THEN Raise(p, "FileNotFoundError") /\ UNCHANGED files
       ELSE /\ \E now \in Now(FS) :
                  files' = Rerank(Save(FS, procs[p].e,
                                       SavedDocument(FS, procs[p]), now).files)
            /\ Done(p)
    /\ UNCHANGED dirs
    /\ ProcFrame

\* FileSystemTask.update(updates) up to `if data and updates:`
ProcUpdate(p, e, updates) ==
    /\ procs[p].pc = "idle"
    /\ LET data == Load(FS, e)
           saves == Truthy(data) /\ Truthy(updates)
       IN  procs' = [procs EXCEPT ![p] =
                       [Idle EXCEPT !.op = "update", !.e = e,
                                    !.updates = updates, !.data = data,
                                    !.pc = IF saves THEN "save" ELSE "done",
                                    !.out = IF saves THEN "none" ELSE "ok"]]
    /\ UNCHANGED <<dirs, files>>
    /\ ProcFrame

\* clear: iter_executors lists data_base
ProcClear(p) ==
    /\ procs[p].pc = "idle"
    /\ procs' = [procs EXCEPT ![p] =
                    [Idle EXCEPT !.op = "clear", !.todo = IterExecutors(FS),
                                 !.pc = "clear_next"]]
    /\ UNCHANGED <<dirs, files>>
    /\ ProcFrame

\* clear: the next listed directory, in whatever order os.listdir gave, and
\* the tests os.path.isdir and os.path.exists on it
ProcClearNext(p) ==
    /\ procs[p].pc = "clear_next"
    /\ IF procs[p].todo = {} THEN Done(p)
       ELSE \E d \in procs[p].todo :
                procs' = [procs EXCEPT ![p].todo = @ \ {d},
                                       ![p].cur = IF d \in dirs THEN d ELSE @,
                                       ![p].pc = IF d \in dirs THEN "rmtree"
                                                 ELSE "clear_next"]
    /\ UNCHANGED <<dirs, files>>
    /\ ProcFrame

\* delete_executor(name) up to its test of os.path.exists(executor_dir)
ProcDeleteExecutor(p, name) ==
    /\ procs[p].pc = "idle"
    /\ procs' = [procs EXCEPT ![p] =
                    IF name \in dirs
                    THEN [Idle EXCEPT !.op = "delete_executor", !.cur = name,
                                      !.pc = "rmtree"]
                    ELSE [Idle EXCEPT !.op = "delete_executor", !.cur = name,
                                      !.pc = "failed", !.out = "NameError"]]
    /\ UNCHANGED <<dirs, files>>
    /\ ProcFrame

\* shutil.rmtree(executor_dir), which raises when the directory is not there
ProcRmtree(p) ==
    /\ procs[p].pc = "rmtree"
    /\ IF procs[p].cur \in dirs
       THEN /\ dirs' = Rmtree(FS, procs[p].cur).dirs
            /\ files' = Rerank(Rmtree(FS, procs[p].cur).files)
            /\ IF procs[p].op = "clear" THEN Goto(p, "clear_next") ELSE Done(p)
       ELSE Raise(p, "FileNotFoundError") /\ UNCHANGED <<dirs, files>>
    /\ ProcFrame

NextProcs ==
    \E p \in Procs :
        \/ \E e \in ProcExecutors : ProcAddTask(p, e)
        \/ ProcMkdir(p)
        \/ ProcSave(p)
        \/ \E e \in ProcExecutors, u \in ProcUpdates : ProcUpdate(p, e, u)
        \/ ProcClear(p)
        \/ ProcClearNext(p)
        \/ \E n \in {NameA, NameB} : ProcDeleteExecutor(p, n)
        \/ ProcRmtree(p)

\* Each of two processes makes one call, step by step, on one database.
SpecProcs == InitProcs /\ [][NextProcs]_vars

\* ---------------------------------------------------------------- properties

\* The document stored at a path of the file map fl.
DocAt(fl, path) == ReadJson(fl[path].text)

\* The path <root>/<name>/<taskid>.json
PathOf(name, taskid) == <<name, Append(taskid, Ext)>>

\* n is what stands before the first hyphen of t (all of t when t has none).
BeforeFirstHyphen(n, t) ==
    /\ Len(n) <= Len(t)
    /\ \A i \in 1..Len(n) : n[i] = t[i] /\ n[i] # Hyphen
    /\ (Len(n) < Len(t) => t[Len(n) + 1] = Hyphen)

\* The prefixes of a task id, to pick the one before the first hyphen from.
Prefixes(t) == {SubSeq(t, 1, k) : k \in 0..Len(t)}

\* For each task id, the part of it before its first hyphen.
FirstPart ==
    [t \in TaskIds |-> CHOOSE n \in Prefixes(t) : BeforeFirstHyphen(n, t)]

\* A step in which the call `op` is made.
Called(op) == last'.op = op

\* C1: after add_task(executor) the task's file loads as a document whose
\* data is the executor's export, whose executor is its name and whose uid
\* is its task id.
RoundTrip ==
    last.op = "add_task" =>
        LET e == last.arg
            path == PathOf(e.name, e.taskid)
        IN  /\ path \in DOMAIN files
            /\ DocAt(files, path).data = e.export
            /\ DocAt(files, path).executor = e.name
            /\ DocAt(files, path).uid = e.taskid

RoundTripWitness ==
    /\ last.op = "add_task"
    /\ last.arg.name = NameAB
    /\ last.arg.export = <<"y">>
    /\ DocAt(files, PathOf(NameAB, IdAB)).data = <<"y">>
    /\ Cardinality(DOMAIN files) = 3

\* C2: update({"data": X}) on a task whose file exists stores X under data
\* and keeps every other top-level key with the value it had.
UpdateMerge ==
    [][\A p \in Payloads :
          (/\ Called("update")
           /\ last'.arg = [data |-> p]
           /\ task # NoTask
           /\ PathOf(task.name, task.taskid) \in DOMAIN files)
          => LET path == PathOf(task.name, task.taskid)
                 old == DocAt(files, path)
                 new == DocAt(files', path)
             IN  /\ path \in DOMAIN files'
                 /\ DOMAIN new = DOMAIN old
                 /\ new.data = p
                 /\ \A k \in DOMAIN old \ {"data"} : new[k] = old[k]]_vars

UpdateMergeWitness ==
    /\ last.op = "update"
    /\ last.arg = [data |-> <<"y">>]
    /\ task = [name |-> NameA, taskid |-> IdA]
    /\ PathOf(NameA, IdA) \in DOMAIN files
    /\ DocAt(files, PathOf(NameA, IdA)) =
           [executor |-> NameA, uid |-> IdA, data |-> <<"y">>, note |-> <<"x">>]

\* C3: update on a handle whose file is absent raises nothing and leaves
\* the directory tree as it was, whatever the updates.
UpdateMissingNoOp ==
    [][(/\ Called("update")
        /\ task # NoTask
        /\ PathOf(task.name, task.taskid) \notin DOMAIN files)
       => (last'.out = "ok" /\ files' = files /\ dirs' = dirs)]_vars

UpdateMissingNoOpWitness ==
    /\ last.op = "update"
    /\ last.out = "ok"
    /\ last.arg = [data |-> <<"x">>]
    /\ task = [name |-> NameB, taskid |-> IdB]
    /\ NameB \in dirs
    /\ PathOf(NameB, IdB) \notin DOMAIN files

\* The file of the task that a call constructs with exists=True: that of its
\* executor for update_task, and <root>/<n>/<taskid>.json with n the part of
\* the task id before its first hyphen for get_task and delete_task.
ConstructedPath(call) ==
    IF call.op = "update_task"
    THEN PathOf(call.arg.executor.name, call.arg.executor.taskid)
    ELSE PathOf(FirstPart[call.arg], call.arg)

\* C4: constructing a task with exists=True (update_task, get_task and
\* delete_task do) while the task's file is absent ends fatally and creates
\* neither the file nor its directory.
ExistsRequiredFatal ==
    [][(/\ \/ Called("update_task")
           \/ (Called("get_task") \/ Called("delete_task")) /\ last'.arg # NoTaskId
        /\ ConstructedPath(last') \notin DOMAIN files)
       => (last'.out = "fatal" /\ files' = files /\ dirs' = dirs)]_vars

ExistsRequiredFatalWitness ==
    /\ last.op = "update_task"
    /\ last.out = "fatal"
    /\ last.arg.executor.name = NameA
    /\ NameA \notin dirs
    /\ DOMAIN files # {}

\* C5: after clear() no executor directory and no task file is left, and
\* iter_executors yields nothing.
ClearEmpties ==
    last.op = "clear" =>
        (dirs = {} /\ DOMAIN files = {} /\ IterExecutors(FS) = {})

\* clear() has run in a process that holds a task it added or got before.
ClearEmptiesWitness ==
    /\ last.op = "clear"
    /\ task = [name |-> NameAB, taskid |-> IdAB]
    /\ dirs = {}

\* The file no other file is as new as, when the mtimes are pairwise distinct.
DistinctTimes ==
    \A p, q \in DOMAIN files : p # q => files[p].mtime # files[q].mtime

LatestPath == CHOOSE p \in DOMAIN files : \A q \in DOMAIN files : files[q].mtime <= files[p].mtime

\* C6 as stated: with task files of pairwise distinct mtimes, get_task()
\* without a task id returns the task of the newest file.
LatestTaskOfAny ==
    (/\ last.op = "get_task"
     /\ last.arg = NoTaskId
     /\ DOMAIN files # {}
     /\ DistinctTimes)
    => (/\ last.out = "ok"
        /\ PathOf(task.name, task.taskid) = LatestPath)

\* C6 as amended: it does when the newest file lies in the directory named
\* by the part of its task id before the first hyphen.
LatestTask ==
    (/\ last.op = "get_task"
     /\ last.arg = NoTaskId
     /\ DOMAIN files # {}
     /\ DistinctTimes
     /\ \E t \in TaskIds : LatestPath = PathOf(FirstPart[t], t))
    => (/\ last.out = "ok"
        /\ PathOf(task.name, task.taskid) = LatestPath)

\* Three files of distinct mtimes, the newest of them returned.
LatestTaskWitness ==
    /\ last.op = "get_task"
    /\ last.arg = NoTaskId
    /\ last.out = "ok"
    /\ Cardinality(DOMAIN files) = 3
    /\ DistinctTimes
    /\ LatestPath = PathOf(NameA, IdA)
    /\ task = [name |-> NameA, taskid |-> IdA]
    /\ files[PathOf(NameAB, IdAB)].mtime = 1

\* C7: get_task(taskid) and delete_task(taskid) take the part of the task id
\* before its first hyphen as the executor's name: the task they resolve is
\* <root>/<that part>/<taskid>.json, which get_task returns and delete_task
\* removes when it exists; they fail when it does not.
FirstHyphenSplit ==
    [][\A t \in TaskIds :
          ((Called("get_task") \/ Called("delete_task")) /\ last'.arg = t)
          => LET path == PathOf(FirstPart[t], t)
             IN  IF path \in DOMAIN files
                 THEN /\ last'.out = "ok"
                      /\ Called("get_task") =>
                            task' = [name |-> FirstPart[t], taskid |-> t]
                      /\ Called("delete_task") =>
                            DOMAIN files' = DOMAIN files \ {path}
                 ELSE last'.out = "fatal"]_vars

\* The id with several hyphens resolves to the executor before the first.
FirstHyphenSplitWitness ==
    /\ last.op = "get_task"
    /\ last.arg = IdA
    /\ last.out = "ok"
    /\ task = [name |-> NameA, taskid |-> IdA]
    /\ PathOf(NameA, IdA) \in DOMAIN files

\* C8: update_task(executor, updates) on an existing task stores the
\* executor's export under data and keeps every other key, whatever the
\* caller's updates are; no other file and no directory changes.
UpdateTaskIgnoresUpdates ==
    [][(Called("update_task") /\ last'.out = "ok")
       => LET e == last'.arg.executor
              path == PathOf(e.name, e.taskid)
          IN  /\ path \in DOMAIN files
              /\ DOMAIN files' = DOMAIN files
              /\ DocAt(files', path) =
                    [k \in DOMAIN DocAt(files, path) |->
                        IF k = "data" THEN e.export ELSE DocAt(files, path)[k]]
              /\ \A q \in DOMAIN files \ {path} : files'[q].text = files[q].text
              /\ dirs' = dirs]_vars

\* The caller's updates name another data and a key the document lacks.
UpdateTaskIgnoresUpdatesWitness ==
    /\ last.op = "update_task"
    /\ last.out = "ok"
    /\ last.arg.updates = [data |-> <<"y">>, note |-> <<"x">>]
    /\ last.arg.executor = [name |-> NameB, taskid |-> IdB, export |-> <<"x">>]
    /\ DocAt(files, PathOf(NameB, IdB)) =
           [executor |-> NameB, uid |-> IdB, data |-> <<"x">>]

\* C9 as stated: add_task leaves the task's file in place and replaces the
\* content of no file that exists already.
AddTaskOverwritesNothing ==
    [][Called("add_task")
       => /\ PathOf(last'.arg.name, last'.arg.taskid) \in DOMAIN files'
          /\ \A p \in DOMAIN files :
                p \in DOMAIN files' /\ files'[p].text = files[p].text]_vars

\* C10 as stated: delete_task(taskid) removes the file of the task of that
\* id, wherever it lies, and nothing else; it fails and removes nothing when
\* no task has that id.
DeleteTaskOfAny ==
    [][\A t \in TaskIds :
          (Called("delete_task") /\ last'.arg = t)
          => LET found == {p \in DOMAIN files : p[2] = Append(t, Ext)}
             IN  IF found # {}
                 THEN /\ last'.out = "ok"
                      /\ DOMAIN files' = DOMAIN files \ found
                      /\ \A q \in DOMAIN files' : files'[q].text = files[q].text
                      /\ dirs' = dirs
                 ELSE last'.out = "fatal" /\ files' = files /\ dirs' = dirs]_vars

\* C10 as amended: it does for the task whose file lies in the directory
\* named by the part of the task id before its first hyphen; the directory
\* stays, so iter_executors yields it still; with no file there the call
\* fails and removes nothing.
DeleteTaskFrame ==
    [][\A t \in TaskIds :
          (Called("delete_task") /\ last'.arg = t)
          => LET path == PathOf(FirstPart[t], t)
             IN  IF path \in DOMAIN files
                 THEN /\ last'.out = "ok"
                      /\ DOMAIN files' = DOMAIN files \ {path}
                      /\ \A q \in DOMAIN files' : files'[q].text = files[q].text
                      /\ dirs' = dirs
                      /\ FirstPart[t] \in IterExecutors(FS)'
                 ELSE last'.out = "fatal" /\ files' = files /\ dirs' = dirs]_vars

\* The last task of an executor is deleted; its directory stays, empty.
DeleteTaskFrameWitness ==
    /\ last.op = "delete_task"
    /\ last.arg = IdB
    /\ last.out = "ok"
    /\ NameB \in IterExecutors(FS)
    /\ \A p \in DOMAIN files : p[1] # NameB
    /\ Cardinality(DOMAIN files) = 2

\* C11: delete_executor(name) on an existing directory removes it with all
\* of its task files and leaves every other directory and file as it was.
DeleteExecutorFrame ==
    [][\A n \in Names :
          (Called("delete_executor") /\ last'.arg = n /\ n \in dirs)
          => /\ last'.out = "ok"
             /\ dirs' = dirs \ {n}
             /\ DOMAIN files' = {p \in DOMAIN files : p[1] # n}
             /\ \A q \in DOMAIN files' : files'[q].text = files[q].text]_vars

\* An executor with a task is deleted while another executor's task stays.
DeleteExecutorFrameWitness ==
    /\ last.op = "delete_executor"
    /\ last.arg = NameA
    /\ last.out = "ok"
    /\ task = [name |-> NameA, taskid |-> IdA]
    /\ dirs = {NameB}
    /\ DOMAIN files = {PathOf(NameB, IdB)}

\* C12 as stated: delete_executor(name) for a directory that does not exist
\* ends in the fatal exit and removes nothing.
DeleteExecutorMissingFatal ==
    [][\A n \in Names :
          (Called("delete_executor") /\ last'.arg = n /\ n \notin dirs)
          => (last'.out = "fatal" /\ dirs' = dirs /\ files' = files)]_vars

\* C13: create_database on an existing configuration directory never fails
\* and leaves data_base in place; when data_base was there already, it and
\* everything under it stay as they were.
CreateDatabaseIdempotent ==
    [][(Called("create_database") /\ config_dir)
       => /\ last'.out = "ok"
          /\ data_base'
          /\ data_base => (dirs' = dirs /\ files' = files)]_vars

\* A second initialisation, with tasks already under data_base.
CreateDatabaseIdempotentWitness ==
    /\ last.op = "create_database"
    /\ last.out = "ok"
    /\ config_dir
    /\ data_base
    /\ Cardinality(DOMAIN files) = 2

OnlyAddTaskCreates ==
    [][(~(DOMAIN files' \subseteq DOMAIN files) \/ ~(dirs' \subseteq dirs))
       => Called("add_task")]_vars

\* load on the handle of a removed task: nothing is returned, nothing made.
OnlyAddTaskCreatesWitness ==
    /\ last.op = "load"
    /\ last.arg = NoDocument
    /\ task = [name |-> NameAB, taskid |-> IdAB]
    /\ NameAB \notin dirs
    /\ PathOf(NameAB, IdAB) \notin DOMAIN files

\* C19: every task file lies at <root>/<E>/<T>.json with E the executor and
\* T the uid of its document, and the directory <root>/<E> exists.
LayoutConsistent ==
    \A p \in DOMAIN files :
        /\ p[1] \in dirs
        /\ DocAt(files, p).executor = p[1]
        /\ Append(DocAt(files, p).uid, Ext) = p[2]

\* Three tasks, one of an executor whose name holds a hyphen, after an
\* update_task.
LayoutConsistentWitness ==
    /\ last.op = "update_task"
    /\ last.out = "ok"
    /\ last.arg.executor.name = NameAB
    /\ Cardinality(DOMAIN files) = 3
    /\ dirs = {NameA, NameB, NameAB}

\* C20: for a task that add_task wrote (its file <name>/<taskid>.json is
\* there), get_task(taskid) returns the task of that very file when the
\* executor's name holds no hyphen; when it holds one, get_task looks in
\* another directory and does not return that file.
AddressRoundTrip ==
    [][\A i \in ExecutorIds :
          (/\ Called("get_task")
           /\ last'.arg = i[2]
           /\ PathOf(i[1], i[2]) \in DOMAIN files)
          => IF \A k \in 1..Len(i[1]) : i[1][k] # Hyphen
             THEN /\ last'.out = "ok"
                  /\ PathOf(task'.name, task'.taskid) = PathOf(i[1], i[2])
             ELSE \/ last'.out = "fatal"
                  \/ PathOf(task'.name, task'.taskid) # PathOf(i[1], i[2])]_vars

\* The task of executor b is found again by its id.
AddressRoundTripWitness ==
    /\ last.op = "get_task"
    /\ last.arg = IdB
    /\ last.out = "ok"
    /\ task = [name |-> NameB, taskid |-> IdB]
    /\ PathOf(NameB, IdB) \in DOMAIN files

\* The task of executor a-b is there and is not found by its id.
AddressRoundTripHyphenWitness ==
    /\ last.op = "get_task"
    /\ last.arg = IdAB
    /\ last.out = "fatal"
    /\ PathOf(NameAB, IdAB) \in DOMAIN files

\* C14 as stated: no process that runs add_task ends with the error that
\* the executor directory exists already.
MkdirRaceTolerated ==
    \A p \in Procs :
        procs[p].op = "add_task" => procs[p].out # "FileExistsError"

\* C16: the save of a process that runs update stores the whole document
\* this process loaded with its own updates merged in, whatever became of
\* the file since it loaded.
LastWriterWins ==
    [][\A p \in Procs :
          (procs[p].op = "update" /\ procs[p].pc = "save" /\ procs'[p].pc = "done")
          => LET path == PathOf(procs[p].e.name, procs[p].e.taskid)
                 d == procs[p].data
                 u == procs[p].updates
             IN  /\ path \in DOMAIN files'
                 /\ DocAt(files', path) =
                       [k \in DOMAIN d \cup DOMAIN u |->
                           IF k \in DOMAIN u THEN u[k] ELSE d[k]]]_vars

\* Both processes updated a-1-2 and saved, p the key note and q the key
\* data: the stored document is q's and p's note is not in it.
LastWriterWinsWitness ==
    /\ \A p \in Procs :
          /\ procs[p].op = "update"
          /\ procs[p].pc = "done"
          /\ procs[p].e.taskid = IdA
          /\ Truthy(procs[p].data)
    /\ procs["p"].updates = [note |-> <<"x">>]
    /\ procs["q"].updates = [data |-> <<"y">>]
    /\ PathOf(NameA, IdA) \in DOMAIN files
    /\ DocAt(files, PathOf(NameA, IdA)) =
           [executor |-> NameA, uid |-> IdA, data |-> <<"y">>]

\* C17 as stated: no process that runs clear fails.
ClearTolerant ==
    \A p \in Procs : procs[p].op = "clear" => procs[p].pc # "failed"

====
